---------------------------- MODULE Spec2Model ----------------------------
(***************************************************************************)
(* Model of src/app.py: the SurrealDB store client, the SurrealDB_Table    *)
(* statement builders and CRUD operations, and the Flask routes that the   *)
(* constructors register.                                                  *)
(*                                                                         *)
(* A Python dict is a sequence of [k, v] pairs with distinct keys, in      *)
(* insertion order.  A Python call that can raise yields a record          *)
(* [ok, val, exc]: ok = FALSE means the exception exc propagated.          *)
(* A statement is the string the f-strings of the source produce.          *)
(***************************************************************************)
EXTENDS Naturals, Sequences, FiniteSets, TLC

VARIABLES
    databases,       \* the SurrealDB objects, in construction order
    tables,          \* the SurrealDB_Table objects, in construction order
    view_functions,  \* Flask's app.view_functions: endpoint -> view function
    pc,              \* "setup" (module import), "serving" (app.run), "handled"
    request,         \* the operation that ran last
    outcome,         \* how it ended: "Responded", "Rejected", "Raised"
    result,          \* what it returned
    built,           \* the statement lists the builders returned during it
    submitted        \* the store calls made during it, in order

vars == <<databases, tables, view_functions, pc, request, outcome, result,
          built, submitted>>

-----------------------------------------------------------------------------
(* Bounds of the model *)

MaxDatabases == 2
MaxTables == 2

-----------------------------------------------------------------------------
(* Python dicts and strings *)

Keys(data) == [i \in 1..Len(data) |-> data[i].k]

Has(data, key) == \E i \in 1..Len(data) : data[i].k = key

Get(data, key) == data[CHOOSE i \in 1..Len(data) : data[i].k = key].v

\* truth value of a str: the empty string is falsy
Truthy(v) == v # ""

Return(v) == [ok |-> TRUE, val |-> v, exc |-> ""]

Raise(e) == [ok |-> FALSE, val |-> <<>>, exc |-> e]

\* data[key]
Subscript(data, key) ==
    IF Has(data, key) THEN Return(Get(data, key))
    ELSE Raise("KeyError: '" \o key \o "'")

RECURSIVE join(_, _)
join(sep, strs) ==
    IF Len(strs) = 0 THEN ""
    ELSE IF Len(strs) = 1 THEN strs[1]
    ELSE strs[1] \o sep \o join(sep, Tail(strs))

-----------------------------------------------------------------------------
(* SurrealDB_Table: the statement builders *)

\* field_statement with the VALUE clause rendered before the ASSERT clause
field_statement_value_first(name, field) ==
    LET p == field.v
        s1 == "DEFINE FIELD " \o field.k \o " ON TABLE " \o name
                  \o " TYPE " \o Get(p, "type") \o " "
        s2 == IF Has(p, "value")
              THEN s1 \o "VALUE " \o Get(p, "value") \o " " ELSE s1
        s3 == IF Has(p, "assertion")
              THEN s2 \o "ASSERT " \o Get(p, "assertion") \o " " ELSE s2
    IN  s3 \o ";"

field_statement(name, field) ==
    LET p == field.v
        s1 == "DEFINE FIELD " \o field.k \o " ON TABLE " \o name
                  \o " TYPE " \o Get(p, "type") \o " "
        s2 == IF Has(p, "assertion")
              THEN s1 \o "ASSERT " \o Get(p, "assertion") \o " " ELSE s1
        s3 == IF Has(p, "value")
              THEN s2 \o "VALUE " \o Get(p, "value") \o " " ELSE s2
    IN  s3 \o ";"

_create_table_statements(self) ==
    LET table_definition ==
            "DEFINE TABLE " \o self.name \o " "
                \o (IF self.schemafull THEN "SCHEMAFULL" ELSE "SCHEMALESS")
                \o ";"
    IN  <<table_definition>>
            \o [i \in 1..Len(self.fields) |->
                    field_statement(self.name, self.fields[i])]

__select_sql_statement(self, data) ==
    LET statement == "SELECT * FROM " \o self.name
    IN  IF Len(data) > 0
        THEN LET id == Subscript(data, "id")
             IN  IF ~id.ok THEN Raise(id.exc)
                 ELSE IF Truthy(id.val)
                      THEN Return(<<statement \o ":" \o id.val \o " ">>)
                      ELSE Return(<<statement>>)
        ELSE Return(<<statement>>)

__insert_sql_statement(self, data) ==
    LET fields == join(", ", Keys(data))
        values == join(", ", [i \in 1..Len(data) |-> "'" \o data[i].v \o "'"])
    IN  Return(<<"INSERT INTO " \o self.name \o " (" \o fields
                    \o ") VALUES (" \o values \o ");">>)

__delete_sql_statement(self, data) ==
    IF Len(data) = 0 THEN Raise("IndexError: list index out of range")
    ELSE LET key == data[1].k
             value == Get(data, key)
         IN  IF key = "id"
             THEN Return(<<"DELETE " \o self.name \o ":" \o value \o ";">>)
             ELSE Return(<<"">>)

__update_sql_statement(self, data) ==
    LET others == SelectSeq(data, LAMBDA e : e.k # "id")
        set_values == join(", ", [i \in 1..Len(others) |->
                          others[i].k \o " = '" \o others[i].v \o "'"])
        id == Subscript(data, "id")
    IN  IF ~id.ok THEN Raise(id.exc)
        ELSE Return(<<"UPDATE " \o self.name \o ":" \o id.val
                        \o " SET " \o set_values \o ";">>)

__validate_data(self, data) ==
    IF Len(data) > 0
    THEN LET id == Subscript(data, "id")
         IN  IF ~id.ok THEN Raise(id.exc)
             ELSE IF Truthy(id.val) THEN Return(TRUE) ELSE Return(FALSE)
    ELSE Return(FALSE)

-----------------------------------------------------------------------------
(* SurrealDB: the store client *)

\* the module-level global `db`: the first SurrealDB object constructed
db == 1

\* json.dumps of one element of the store's result list
json_dumps(element) ==
    "{\"status\": \"" \o element.status \o "\", \"result\": \""
        \o element.result \o "\"}"

Str(s) == [type |-> "str", str |-> s]

\* query reading the last element of the store's list instead of the first,
\* outside the try block
query_last_unguarded(self, statement, response) ==
    IF response.kind = "raise"
    THEN [type |-> "dict", error |-> "Error in query", query |-> statement,
          exception |-> response.cause]
    ELSE IF Len(response.body) = 0
         THEN [type |-> "exception",
               exc |-> "IndexError: list index out of range"]
         ELSE Str(json_dumps(response.body[Len(response.body)]))

\* What requests.post(...) and response.json() do for one call: either one of
\* them raises (kind = "raise", with the exception's text), or the body parses
\* to a JSON list (kind = "list").
query(self, statement, response) ==
    IF response.kind = "raise"
    THEN [type |-> "dict", error |-> "Error in query", query |-> statement,
          exception |-> response.cause]
    ELSE IF Len(response.body) = 0
         THEN [type |-> "dict", error |-> "Error in query",
               query |-> statement,
               exception |-> "list index out of range"]
         ELSE Str(json_dumps(response.body[1]))

\* the HTTP request one call of query makes, with the reply it got and the
\* value query returned
StoreCall(d, statement, response) ==
    [db |-> d,
     url |-> databases[d].url,
     NS |-> databases[d].namespace,
     DB |-> databases[d].database,
     data |-> statement,
     response |-> response,
     output |-> query(databases[d], statement, response)]

\* the store's behaviour on the k-th call of a bulk operation: the pattern,
\* repeated
ResponseAt(pattern, k) == pattern[((k - 1) % Len(pattern)) + 1]

\* run_statements leaving the loop at the first statement the store fails on
RECURSIVE run_statements_stop(_, _, _, _)
run_statements_stop(d, statements, pattern, k) ==
    IF Len(statements) = 0 THEN <<>>
    ELSE LET call == StoreCall(d, statements[1], ResponseAt(pattern, k + 1))
         IN  IF call.output.type = "dict" THEN <<call>>
             ELSE <<call>> \o run_statements_stop(d, Tail(statements),
                                  pattern, k + 1)

\* run_statements, k store calls having been made before it.  query catches
\* every Exception, so the except branch never runs and every statement is
\* tried.
RECURSIVE run_statements(_, _, _, _)
run_statements(d, statements, pattern, k) ==
    IF Len(statements) = 0 THEN <<>>
    ELSE <<StoreCall(d, statements[1], ResponseAt(pattern, k + 1))>>
             \o run_statements(d, Tail(statements), pattern, k + 1)

\* create_tables: the statement lists built, and the store calls made
RECURSIVE create_tables(_, _, _, _)
create_tables(d, table_ids, pattern, k) ==
    IF Len(table_ids) = 0 THEN [built |-> <<>>, submitted |-> <<>>]
    ELSE LET statements == _create_table_statements(tables[table_ids[1]])
             calls == run_statements(d, statements, pattern, k)
             rest == create_tables(d, Tail(table_ids), pattern,
                         k + Len(calls))
         IN  [built |-> <<statements>> \o rest.built,
              submitted |-> calls \o rest.submitted]

_info(self) ==
    [type |-> "dict",
     name |-> self.name,
     description |-> self.description,
     schemafull |-> self.schemafull,
     api_route |-> "/api/v1/" \o self.name,
     apis_enabled |-> self.apis_enabled,
     fields |-> self.fields]

db_info(self) ==
    [type |-> "dict",
     name |-> self.name,
     description |-> self.description,
     url |-> self.url,
     namespace |-> self.namespace,
     database |-> self.database,
     api_route |-> "/api/v1/db/" \o self.name]

-----------------------------------------------------------------------------
(* SurrealDB_Table: the operations *)

NoResult == [type |-> "None"]

Raised(exc) ==
    [outcome |-> "Raised", result |-> [type |-> "exception", exc |-> exc],
     built |-> <<>>, submitted |-> <<>>]

Rejected(error) ==
    [outcome |-> "Rejected", result |-> [type |-> "dict", error |-> error],
     built |-> <<>>, submitted |-> <<>>]

\* db.query(statements[0]) and return its value
Executed(d, statements, response) ==
    LET call == StoreCall(d, statements[1], response)
    IN  [outcome |-> "Responded", result |-> call.output,
         built |-> <<statements>>, submitted |-> <<call>>]

read(self, data, response) ==
    LET s == __select_sql_statement(self, data)
    IN  IF s.ok THEN Executed(db, s.val, response) ELSE Raised(s.exc)

write(self, data, response) ==
    LET s == __insert_sql_statement(self, data)
    IN  IF s.ok THEN Executed(db, s.val, response) ELSE Raised(s.exc)

delete(self, data, response) ==
    LET v == __validate_data(self, data)
    IN  IF ~v.ok THEN Raised(v.exc)
        ELSE IF v.val
        THEN LET s == __delete_sql_statement(self, data)
             IN  IF s.ok THEN Executed(db, s.val, response) ELSE Raised(s.exc)
        ELSE Rejected("Invalid data, must contain an id")

update(self, data, response) ==
    LET v == __validate_data(self, data)
    IN  IF ~v.ok THEN Raised(v.exc)
        ELSE IF v.val
        THEN LET s == __update_sql_statement(self, data)
             IN  IF s.ok THEN Executed(db, s.val, response) ELSE Raised(s.exc)
        ELSE Rejected("Invalid data, must contain an id")

-----------------------------------------------------------------------------
(* Flask: app.add_url_rule and the constructors that call it *)

Ops == <<"read", "write", "delete", "update">>

\* app.add_url_rule(rule, endpoint, view_func): Flask refuses to bind an
\* endpoint that already has another view function (AssertionError)
add_url_rule(vf, endpoint, view_func) ==
    IF endpoint \in DOMAIN vf
    THEN Raise("AssertionError: View function mapping is overwriting an "
                   \o "existing endpoint function: " \o endpoint)
    ELSE [ok |-> TRUE, val |-> vf @@ (endpoint :> view_func), exc |-> ""]

\* consecutive add_url_rule calls: the first that raises ends the constructor
RECURSIVE add_url_rules(_, _)
add_url_rules(vf, rules) ==
    IF Len(rules) = 0 THEN [ok |-> TRUE, val |-> vf, exc |-> ""]
    ELSE LET r == add_url_rule(vf, rules[1].endpoint, rules[1].view_func)
         IN  IF r.ok THEN add_url_rules(r.val, Tail(rules))
             ELSE [ok |-> FALSE, val |-> vf, exc |-> r.exc]

\* route_view binding the operation whatever the capability flag says
route_view_unchecked(t, op, apis_enabled) ==
    [kind |-> "op", table |-> t, op |-> op]

\* the view function a table binds to one of its four operation routes
route_view(t, op, apis_enabled) ==
    IF apis_enabled[op]
    THEN [kind |-> "op", table |-> t, op |-> op]
    ELSE [kind |-> "unavailable", table |-> 0, op |-> op]

\* SurrealDB.__init__ on the heap h = [databases, tables, view_functions]
SurrealDB_init(h, name, description, url, namespace, database, apis_enabled) ==
    LET self == [name |-> name, description |-> description, url |-> url,
                 namespace |-> namespace, database |-> database,
                 apis_enabled |-> apis_enabled, database_tables |-> <<>>]
        d == Len(h.databases) + 1
        r == IF apis_enabled.info
             THEN add_url_rule(h.view_functions, "db " \o name \o " info",
                      [kind |-> "db_info", table |-> d, op |-> "info"])
             ELSE [ok |-> TRUE, val |-> h.view_functions, exc |-> ""]
    IN  \* an object whose constructor raised is referenced by nothing
        IF r.ok
        THEN [ok |-> TRUE, exc |-> "",
              heap |-> [h EXCEPT !.databases = Append(@, self),
                                 !.view_functions = r.val]]
        ELSE [ok |-> FALSE, exc |-> r.exc, heap |-> h]

\* SurrealDB_Table.__init__: the table is appended to db.database_tables
\* before any route is registered
SurrealDB_Table_init(h, d, name, description, fields, schemafull, apis_enabled) ==
    LET self == [db |-> d, name |-> name, description |-> description,
                 fields |-> fields, schemafull |-> schemafull,
                 apis_enabled |-> apis_enabled]
        t == Len(h.tables) + 1
        h1 == [h EXCEPT !.tables = Append(@, self),
                        !.databases[d].database_tables = Append(@, t)]
        rules == [i \in 1..Len(Ops) |->
                     [endpoint |-> name \o " " \o Ops[i],
                      view_func |-> route_view(t, Ops[i], apis_enabled)]]
                 \o (IF apis_enabled["info"]
                     THEN <<[endpoint |-> name \o " info",
                             view_func |-> [kind |-> "info", table |-> t,
                                            op |-> "info"]]>>
                     ELSE <<>>)
        r == add_url_rules(h1.view_functions, rules)
    IN  [ok |-> r.ok, exc |-> r.exc,
         heap |-> [h1 EXCEPT !.view_functions = r.val]]

-----------------------------------------------------------------------------
(* The module-level objects *)

Field(name, properties) == [k |-> name, v |-> properties]

Prop(key, value) == [k |-> key, v |-> value]

AllEnabled ==
    [op \in {"read", "write", "delete", "update", "info"} |-> TRUE]

UserFields ==
    << Field("name", <<Prop("type", "object")>>),
       Field("name.first", <<Prop("type", "string")>>),
       Field("name.last", <<Prop("type", "string")>>),
       Field("name.full", <<Prop("type", "string"),
                            Prop("value", "name.first + \" \" + name.last")>>),
       Field("email", <<Prop("type", "string"),
                        Prop("assertion", "is::email($value)")>>),
       Field("password", <<Prop("type", "string")>>) >>

EmptyHeap ==
    [databases |-> <<>>, tables |-> <<>>, view_functions |-> <<>>]

\* db = SurrealDB(...)
ModuleDb ==
    SurrealDB_init(EmptyHeap, "surreal", "SurrealDB",
        "http://localhost:8000/sql", "test", "test", [info |-> TRUE]).heap

\* user = SurrealDB_Table(db = db, ...)
ModuleHeap ==
    SurrealDB_Table_init(ModuleDb, db, "user", "User table", UserFields, TRUE,
        AllEnabled).heap

\* the module-level global `user`: the first SurrealDB_Table constructed
user == 1

-----------------------------------------------------------------------------
(* Inputs *)

DatabaseArgs ==
    { [name |-> "surreal", description |-> "SurrealDB",
       url |-> "http://localhost:8000/sql", namespace |-> "test",
       database |-> "test"],
      [name |-> "backup", description |-> "Backup",
       url |-> "http://backup:8000/sql", namespace |-> "test",
       database |-> "backup"] }

PostFields ==
    << Field("title", <<Prop("type", "string")>>),
       Field("slug", <<Prop("type", "string"),
                       Prop("assertion", "$value != NONE"),
                       Prop("value", "string::slug(title)")>>) >>

\* the name, description, fields and schemafull arguments of a table: a
\* second table called user, without fields, and a table called post
TableArgs ==
    { [name |-> "user", description |-> "Users", fields |-> <<>>,
       schemafull |-> FALSE],
      [name |-> "post", description |-> "Post table", fields |-> PostFields,
       schemafull |-> FALSE] }

TableNames == { a.name : a \in TableArgs }

NoDelete == [AllEnabled EXCEPT !["delete"] = FALSE]

NoneEnabled ==
    [op \in {"read", "write", "delete", "update", "info"} |-> FALSE]

ApiChoices == { AllEnabled, NoDelete, NoneEnabled }

\* request.get_json(): a JSON object
Payloads ==
    { <<>>,
      <<Prop("id", "1")>>,
      <<Prop("id", "")>>,
      <<Prop("name", "x")>>,
      <<Prop("name", "x"), Prop("id", "1")>>,
      <<Prop("id", "1"), Prop("name", "x")>>,
      <<Prop("email", "a@b.com"), Prop("password", "x")>> }

Element(r) == [status |-> "OK", result |-> r]

Failure(cause) == [kind |-> "raise", cause |-> cause, body |-> <<>>]

Body(elements) == [kind |-> "list", cause |-> "", body |-> elements]

\* the store's behaviour on one call: requests.post raises (no connection,
\* timeout), response.json() raises (malformed body), or a JSON list arrives
Responses ==
    { Failure("ConnectionError"), Failure("ReadTimeout"),
      Failure("JSONDecodeError"),
      Body(<<>>), Body(<<Element("r1")>>),
      Body(<<Element("r1"), Element("r2")>>) }

\* the endpoints the constructors can register
Endpoints ==
    { n \o " " \o o : n \in TableNames,
                      o \in {"read", "write", "delete", "update", "info"} }
        \cup { "db " \o a.name \o " info" : a \in DatabaseArgs }

\* the store's behaviour on the n calls of one bulk operation: a pattern of
\* one or two behaviours, repeated
BulkResponses ==
    { Failure("ConnectionError"), Body(<<>>), Body(<<Element("r1")>>) }

Patterns == { <<a>> : a \in BulkResponses }
                \cup { <<a, b>> : a \in BulkResponses, b \in BulkResponses }

-----------------------------------------------------------------------------
(* Actions *)

Heap ==
    [databases |-> databases, tables |-> tables,
     view_functions |-> view_functions]

Init ==
    /\ databases = ModuleHeap.databases
    /\ tables = ModuleHeap.tables
    /\ view_functions = ModuleHeap.view_functions
    /\ pc = "setup"
    /\ request = [kind |-> "import"]
    /\ outcome = "Constructed"
    /\ result = NoResult
    /\ built = <<>>
    /\ submitted = <<>>

\* SurrealDB(name, description, url, namespace, database, auth, apis_enabled)
NewDatabase(args, info) ==
    /\ pc = "setup"
    /\ Len(databases) < MaxDatabases
    /\ LET r == SurrealDB_init(Heap, args.name, args.description, args.url,
                    args.namespace, args.database, [info |-> info])
       IN  /\ databases' = r.heap.databases
           /\ tables' = r.heap.tables
           /\ view_functions' = r.heap.view_functions
           /\ request' = [kind |-> "SurrealDB", name |-> args.name]
           /\ outcome' = IF r.ok THEN "Constructed" ELSE "Raised"
           /\ result' = IF r.ok THEN NoResult
                        ELSE [type |-> "exception", exc |-> r.exc]
    /\ UNCHANGED <<pc, built, submitted>>

\* SurrealDB_Table(db, name, description, fields, schemafull, apis_enabled)
NewTable(d, name, description, fields, schemafull, apis_enabled) ==
    /\ pc = "setup"
    /\ Len(tables) < MaxTables
    /\ d \in 1..Len(databases)
    /\ LET r == SurrealDB_Table_init(Heap, d, name, description, fields,
                    schemafull, apis_enabled)
       IN  /\ databases' = r.heap.databases
           /\ tables' = r.heap.tables
           /\ view_functions' = r.heap.view_functions
           /\ request' = [kind |-> "SurrealDB_Table", name |-> name, db |-> d]
           /\ outcome' = IF r.ok THEN "Constructed" ELSE "Raised"
           /\ result' = IF r.ok THEN NoResult
                        ELSE [type |-> "exception", exc |-> r.exc]
    /\ UNCHANGED <<pc, built, submitted>>

\* app.run(): construction is over, requests are served one at a time
Run ==
    /\ pc = "setup"
    /\ pc' = "serving"
    /\ request' = [kind |-> "none"]
    /\ outcome' = "Idle"
    /\ result' = NoResult
    /\ UNCHANGED <<databases, tables, view_functions, built, submitted>>

\* the view function bound to an endpoint, called with request.get_json()
Dispatch(view_func, data, response) ==
    CASE view_func.kind = "op" /\ view_func.op = "read" ->
             read(tables[view_func.table], data, response)
      [] view_func.kind = "op" /\ view_func.op = "write" ->
             write(tables[view_func.table], data, response)
      [] view_func.kind = "op" /\ view_func.op = "delete" ->
             delete(tables[view_func.table], data, response)
      [] view_func.kind = "op" /\ view_func.op = "update" ->
             update(tables[view_func.table], data, response)
      [] view_func.kind = "unavailable" ->
             Rejected("API route not available")
      [] view_func.kind = "info" ->
             [outcome |-> "Responded",
              result |-> _info(tables[view_func.table]),
              built |-> <<>>, submitted |-> <<>>]
      [] view_func.kind = "db_info" ->
             [outcome |-> "Responded",
              result |-> db_info(databases[view_func.table]),
              built |-> <<>>, submitted |-> <<>>]

\* a POST to one of the registered routes
Invoke(endpoint, data, response) ==
    /\ pc = "serving"
    /\ endpoint \in DOMAIN view_functions
    /\ LET r == Dispatch(view_functions[endpoint], data, response)
       IN  /\ request' = [kind |-> "invoke", endpoint |-> endpoint,
                          view_func |-> view_functions[endpoint],
                          data |-> data]
           /\ outcome' = r.outcome
           /\ result' = r.result
           /\ built' = r.built
           /\ submitted' = r.submitted
    /\ pc' = "handled"
    /\ UNCHANGED <<databases, tables, view_functions>>

\* GET /test
Test(response) ==
    /\ pc = "serving"
    /\ LET data == << Prop("name.first", "John"), Prop("name.last", "Doe"),
                      Prop("email", "John.Doe@email.com"),
                      Prop("password", "password") >>
           r == write(tables[user], data, response)
       IN  /\ request' = [kind |-> "test", data |-> data]
           /\ outcome' = IF r.outcome = "Raised" THEN "Raised" ELSE "Responded"
           /\ result' = IF r.outcome = "Raised" THEN r.result ELSE Str("done!")
           /\ built' = r.built
           /\ submitted' = r.submitted
    /\ pc' = "handled"
    /\ UNCHANGED <<databases, tables, view_functions>>

\* db.create_tables() on one of the SurrealDB objects
CreateTables(d, pattern) ==
    /\ pc = "serving"
    /\ d \in 1..Len(databases)
    /\ LET r == create_tables(d, databases[d].database_tables, pattern, 0)
       IN  /\ built' = r.built
           /\ submitted' = r.submitted
    /\ request' = [kind |-> "create_tables", db |-> d]
    /\ outcome' = "Responded"
    /\ result' = NoResult
    /\ pc' = "handled"
    /\ UNCHANGED <<databases, tables, view_functions>>

\* the response is sent; the next request can be served
Respond ==
    /\ pc = "handled"
    /\ pc' = "serving"
    /\ request' = [kind |-> "none"]
    /\ outcome' = "Idle"
    /\ result' = NoResult
    /\ built' = <<>>
    /\ submitted' = <<>>
    /\ UNCHANGED <<databases, tables, view_functions>>

Next ==
    \/ \E args \in DatabaseArgs, info \in BOOLEAN : NewDatabase(args, info)
    \/ \E d \in 1..MaxDatabases, args \in TableArgs,
          apis_enabled \in ApiChoices :
           NewTable(d, args.name, args.description, args.fields,
                    args.schemafull, apis_enabled)
    \/ Run
    \/ \E endpoint \in Endpoints, data \in Payloads,
          response \in Responses : Invoke(endpoint, data, response)
    \/ \E response \in Responses : Test(response)
    \/ \E d \in 1..MaxDatabases, pattern \in Patterns : CreateTables(d, pattern)
    \/ Respond

Spec == Init /\ [][Next]_vars

-----------------------------------------------------------------------------
(* Properties *)

OpKinds == {"read", "write", "delete", "update"}

Handled(kind) == pc = "handled" /\ request.kind = kind

\* the request that ran last was a POST to the route of operation op of the
\* tables called n
Invoked(n, op) == Handled("invoke") /\ request.endpoint = n \o " " \o op

\* the request that ran last reached the method op of a table
Reached(op) ==
    /\ Handled("invoke")
    /\ request.view_func.kind = "op"
    /\ request.view_func.op = op

\* the table whose constructor registered the routes of the name n: the
\* first one constructed with that name
Routed(n) ==
    CHOOSE t \in 1..Len(tables) :
        /\ tables[t].name = n
        /\ \A u \in 1..(t - 1) : tables[u].name # n

Unavailable == [type |-> "dict", error |-> "API route not available"]

InvalidData == [type |-> "dict", error |-> "Invalid data, must contain an id"]

NoStatement == built = <<>> /\ submitted = <<>>

\* C1: an operation whose capability flag is disabled on the table that owns
\* the route ends Rejected with the "not available" error, whatever the
\* payload, and no statement is built or submitted.
C1_DisabledCapabilityRejected ==
    \A n \in TableNames, op \in OpKinds :
        (Invoked(n, op) /\ ~tables[Routed(n)].apis_enabled[op])
            => /\ outcome = "Rejected"
               /\ result = Unavailable
               /\ NoStatement

\* scenario D: delete is disabled, the other operations are not, and a delete
\* of {"id": "1"} has been rejected
C1_Witness ==
    /\ Invoked("post", "delete")
    /\ ~tables[Routed("post")].apis_enabled["delete"]
    /\ tables[Routed("post")].apis_enabled["update"]
    /\ request.data = <<Prop("id", "1")>>
    /\ outcome = "Rejected"

HasTruthyId(data) == Has(data, "id") /\ Truthy(Get(data, "id"))

\* C2: an update or delete of a record that is empty, has no id or has a
\* falsy id ends Rejected with the "invalid data" error, and no statement
\* is built or submitted.
C2_MissingIdRejected ==
    \A op \in {"update", "delete"} :
        (Reached(op) /\ ~HasTruthyId(request.data))
            => /\ outcome = "Rejected"
               /\ result = InvalidData
               /\ NoStatement

\* C3: every read, write, update or delete ends Responded or Rejected and
\* returns the store's result or an error payload: no exception escapes.
C3_NoExceptionEscapes ==
    Handled("invoke")
        => /\ outcome \in {"Responded", "Rejected"}
           /\ result.type \in {"str", "dict"}

IsErrorPayload(output, statement, cause) ==
    /\ output.type = "dict"
    /\ output.error = "Error in query"
    /\ output.query = statement
    /\ output.exception = cause

\* C4: a store call that fails, or that returns an empty list, yields an error
\* payload holding the statement and the cause; a store call that returns a
\* non-empty list yields its first element (as JSON text).  A single-record
\* operation returns exactly what its store call yielded.
C4_StoreClientNeverRaises ==
    /\ \A i \in 1..Len(submitted) :
           LET call == submitted[i]
           IN  CASE call.response.kind = "raise" ->
                        IsErrorPayload(call.output, call.data,
                            call.response.cause)
                 [] call.response.kind = "list"
                        /\ Len(call.response.body) = 0 ->
                        IsErrorPayload(call.output, call.data,
                            "list index out of range")
                 [] OTHER ->
                        /\ call.output.type = "str"
                        /\ call.output.str
                               = "{\"status\": \""
                                     \o call.response.body[1].status
                                     \o "\", \"result\": \""
                                     \o call.response.body[1].result \o "\"}"
    /\ (Handled("invoke") /\ Len(submitted) > 0)
           => /\ Len(submitted) = 1
              /\ outcome = "Responded"
              /\ result = submitted[1].output

\* scenario E: the store answered an insert with an empty list, and the
\* operation returned the error payload
C4_Witness ==
    /\ Reached("write")
    /\ Len(submitted) = 1
    /\ submitted[1].response = Body(<<>>)
    /\ outcome = "Responded"
    /\ result.type = "dict"
    /\ result.query = "INSERT INTO post (email, password) VALUES ('a@b.com', 'x');"

RECURSIVE Flatten(_)
Flatten(lists) ==
    IF Len(lists) = 0 THEN <<>> ELSE lists[1] \o Flatten(Tail(lists))

\* C5: create_tables on a database submits, to that database, exactly the
\* statements of its registered tables, tables in registration order and
\* each table's statements in their own order, whatever the store answers.
C5_CreateTablesSubmitsAll ==
    Handled("create_tables")
        => LET d == request.db
               registry == databases[d].database_tables
               expected == Flatten([i \in 1..Len(registry) |->
                               _create_table_statements(tables[registry[i]])])
           IN  /\ [i \in 1..Len(submitted) |-> submitted[i].data] = expected
               /\ \A i \in 1..Len(submitted) : submitted[i].db = d

\* two tables are registered, the store failed on the first statement, and
\* the statements of the second table were still submitted
C5_Witness ==
    /\ Handled("create_tables")
    /\ Len(databases[request.db].database_tables) = 2
    /\ Len(submitted) = 10
    /\ submitted[1].response.kind = "raise"
    /\ submitted[1].data = "DEFINE TABLE user SCHEMAFULL;"
    /\ submitted[8].data = "DEFINE TABLE post SCHEMALESS;"

Clause(keyword, properties, key) ==
    IF Has(properties, key)
    THEN keyword \o " " \o Get(properties, key) \o " " ELSE ""

\* C6: the statements built for a schema are one table definition, carrying
\* SCHEMAFULL or SCHEMALESS, then one definition per field, in the order of
\* the fields, each with its type, then its assertion if it has one, then its
\* computed value if it has one.
C6_DefinitionStatements ==
    Handled("create_tables")
        => LET registry == databases[request.db].database_tables
           IN  /\ Len(built) = Len(registry)
               /\ \A i \in 1..Len(built) :
                      LET S == tables[registry[i]]
                          statements == built[i]
                      IN  /\ Len(statements) = 1 + Len(S.fields)
                          /\ statements[1]
                                 = "DEFINE TABLE " \o S.name \o " "
                                       \o (IF S.schemafull THEN "SCHEMAFULL"
                                           ELSE "SCHEMALESS") \o ";"
                          /\ \A j \in 1..Len(S.fields) :
                                 statements[j + 1]
                                     = "DEFINE FIELD " \o S.fields[j].k
                                           \o " ON TABLE " \o S.name \o " "
                                           \o Clause("TYPE", S.fields[j].v,
                                                  "type")
                                           \o Clause("ASSERT", S.fields[j].v,
                                                  "assertion")
                                           \o Clause("VALUE", S.fields[j].v,
                                                  "value")
                                           \o ";"

\* the statements of a schemafull table and of a schemaless table with a
\* field that has both an assertion and a computed value have been built
C6_Witness ==
    /\ Handled("create_tables")
    /\ Len(built) = 2
    /\ Len(built[1]) = 7
    /\ built[1][1] = "DEFINE TABLE user SCHEMAFULL;"
    /\ built[2] = << "DEFINE TABLE post SCHEMALESS;",
                     "DEFINE FIELD title ON TABLE post TYPE string ;",
                     "DEFINE FIELD slug ON TABLE post TYPE string "
                         \o "ASSERT $value != NONE "
                         \o "VALUE string::slug(title) ;" >>

\* C7: a delete of a record whose first key is not id, here one that carries
\* a truthy id in a later position, ends with an error payload; no
\* statement, and no empty statement, is built or submitted.
C7_DeleteRequiresIdKey ==
    (/\ Reached("delete")
     /\ Len(request.data) > 0
     /\ request.data[1].k # "id"
     /\ HasTruthyId(request.data))
        => /\ outcome = "Rejected"
           /\ result.type = "dict"
           /\ NoStatement

\* C8: a write of an empty record is rejected and submits nothing; a write of
\* a non-empty record builds and submits exactly one insert statement.
C8_WriteRejectsEmptyRecord ==
    Reached("write")
        => IF Len(request.data) = 0
           THEN outcome = "Rejected" /\ submitted = <<>>
           ELSE /\ Len(built) = 1
                /\ Len(built[1]) = 1
                /\ Len(submitted) = 1
                /\ submitted[1].data = built[1][1]

\* C9: the registry of a database holds at most one table per name.
C9_OneSchemaPerName ==
    \A d \in 1..Len(databases) :
        LET registry == databases[d].database_tables
        IN  \A i, j \in 1..Len(registry) :
                tables[registry[i]].name = tables[registry[j]].name => i = j

\* C10: the statements of a table's operations are submitted to the database
\* the table was constructed with.
C10_SubmittedToOwnDatabase ==
    \A op \in OpKinds :
        Reached(op)
            => \A i \in 1..Len(submitted) :
                   submitted[i].db = tables[request.view_func.table].db

=============================================================================
